---- MODULE Spec2Model ----
(***************************************************************************)
(* Model of the build orchestrator of src/src/base.py: the rule registry   *)
(* (targets with dependencies, resources, arch whitelists, package flag),  *)
(* the dependency resolver (dependencyResolver, createBuildOrder), the     *)
(* fingerprint (calculateHash), the build pass (buildCode) and the child   *)
(* process runner (run_process, run_live).                                 *)
(*                                                                         *)
(* Target names are the numbers 1..NumTargets; Python's sorted() on names  *)
(* is the numeric order.                                                   *)
(***************************************************************************)
EXTENDS Naturals, Sequences, FiniteSets, TLC

\* ---------------------------------------------------------------- bounds
NumTargets == 3
MaxDepEdges == 3
MaxResEdges == 2
\* the rule sets of the build pass: fewer declarations, more runs
BuildDepEdges == 2
BuildResEdges == 1
MaxDecls == 3
NumSources == 2
NumPatches == 2
MaxListLen == 2
MaxRuns == 2
\* the rule sets of the mode selection: plain targets, every mode
ModeDepEdges == 1
\* run_process: the lines a child writes, and the lines a pipe and the
\* StreamReader behind it hold before the child's write blocks
MaxLines == 3
PipeCap == 2

Targets == 1..NumTargets
SourceNames == 1..NumSources
PatchNames == 1..NumPatches

\* ----------------------------------------------------- program constants
\* architectures (base.py:17), restricted to the ones the rule sets use
architectures == {"linux-x64", "linux-arm64", "darwin-x64"}
native_only_architectures == {"darwin-x64"}

VARIABLES
    \* the rule registry: targets[name].dependencies / resources / arch / package
    deps, resources, archs, package,
    \* the arguments of the call
    target, arch,
    \* control: where the process is
    pc,
    \* createBuildOrder's result (the list build_order), and the edge named by
    \* the "Circular reference detected" error
    build_order, errEdge,
    \* targets[name].sources / patches, sources[name].hash, and the files
    \* <group>/scripts/<name>.sh and <group>/patches/<name>
    srcs, patches, srcHash, scriptFile, patchFile,
    \* the other arguments of buildCode and the host (getArchitecture())
    force, no_clean, prefix, local, deploy, hostArch,
    \* targets[name].hash and targets[name].built
    hash, built,
    \* the disk: _outputs/<arch>/<name> (its .hash sidecar apart) and
    \* _builds/<arch>/<name>
    outDir, sidecar, buildDir,
    \* buildCode's locals: the loop counter pos, the loop's target, native
    pos, cur, native,
    \* what the process did: the "Step [..] skipping/building" lines, the
    \* scripts executeBuild ran, the sidecars it marked finished, the deploy
    \* copy, and the exit status of the process
    log, ran, marked, deployed, exitStatus,
    \* the number of the process (one buildCode pass each), and what the
    \* operator did before starting it
    run, prevRun,
    \* run_process: the child's program (the stream of each line it writes and
    \* its exit code), whether a process it started keeps its stdout and stderr
    \* open, how far the child is, and what sits in the two pipes
    script, childCode, inherited, child, wrote, pipe,
    \* run_process: the futures stdout_f and stderr_f, process.returncode, the
    \* position of the coroutine, the lines click.secho printed, and the value
    \* run_live returned
    fut, returncode, procPc, emitted, result

ruleVars == <<deps, resources, archs, package, srcs, patches, srcHash, patchFile>>
argVars == <<target, arch, no_clean, prefix, local, deploy, hostArch>>
memVars == <<hash, built>>
diskVars == <<outDir, sidecar, buildDir>>
passVars == <<build_order, errEdge, pos, cur, native>>
outVars == <<log, ran, marked, deployed, exitStatus>>

procVars == <<script, childCode, inherited, child, wrote, pipe, fut, returncode,
              procPc, emitted, result>>
buildVars == <<ruleVars, scriptFile, argVars, force, memVars, diskVars, passVars,
               outVars, pc, run, prevRun>>

vars == <<buildVars, procVars>>

\* ------------------------------------------------------------- sequences
Range(s) == {s[i] : i \in 1..Len(s)}

\* list.remove(x): removes the first occurrence
RECURSIVE Remove(_, _)
Remove(s, x) ==
    IF s = <<>> THEN <<>>
    ELSE IF Head(s) = x THEN Tail(s)
    ELSE <<Head(s)>> \o Remove(Tail(s), x)

\* position of the first occurrence of x in s, 0 when absent
RECURSIVE IndexFrom(_, _, _)
IndexFrom(s, x, i) ==
    IF i > Len(s) THEN 0
    ELSE IF s[i] = x THEN i
    ELSE IndexFrom(s, x, i + 1)

Index(s, x) == IndexFrom(s, x, 1)

\* ------------------------------------------------------------ rule sets
Edges == {e \in Targets \X Targets : e[1] # e[2]}

\* the sequences of at most k distinct elements of S
RECURSIVE DistinctSeqs(_, _)
DistinctSeqs(S, k) ==
    IF k = 0 THEN {<<>>}
    ELSE LET r == DistinctSeqs(S, k - 1)
         IN r \cup UNION {{Append(s, e) : e \in S \ Range(s)} : s \in r}

\* the declared list of t when the declarations are made in the order of es
RECURSIVE Adj(_, _)
Adj(es, t) ==
    IF es = <<>> THEN <<>>
    ELSE (IF Head(es)[1] = t THEN <<Head(es)[2]>> ELSE <<>>) \o Adj(Tail(es), t)

ArchLists == {<<>>, <<"linux-arm64">>}
RequestedArchs == {"linux-x64", "linux-arm64"}

\* ----------------------------------------------------- dependencyResolver
NoEdge == <<>>

\* a resolver that never looks at the arch whitelist
ArchExcludedNever(t) == FALSE

\* node.arch and arch not in node.arch
ArchExcluded(t) == archs[t] # <<>> /\ arch \notin Range(archs[t])

EmptyResolution == [resolved |-> <<>>, unresolved |-> <<>>, error |-> NoEdge]

RECURSIVE dependencyResolver(_, _)
RECURSIVE ResolveDependencies(_, _, _)

\* the loop "for dep in node.dependencies" from its i-th element on;
\* log_error exits the process, so an error ends every enclosing loop
ResolveDependencies(node, i, st) ==
    IF st.error # NoEdge \/ i > Len(deps[node]) THEN st
    ELSE LET dep == deps[node][i]
         IN IF dep \in Range(st.resolved)
            THEN ResolveDependencies(node, i + 1, st)
            ELSE IF dep \in Range(st.unresolved)
                 THEN [st EXCEPT !.error = <<node, dep>>]
                 ELSE ResolveDependencies(node, i + 1, dependencyResolver(dep, st))

dependencyResolver(node, st) ==
    IF st.error # NoEdge THEN st
    ELSE IF ArchExcluded(node) THEN st
    ELSE LET st1 == [st EXCEPT !.unresolved = Append(@, node)]
             st2 == ResolveDependencies(node, 1, st1)
         IN IF st2.error # NoEdge THEN st2
            ELSE [st2 EXCEPT !.resolved = Append(@, node),
                             !.unresolved = Remove(@, node)]

\* ------------------------------------------------------- createBuildOrder
\* promotion with resolved.append(r) in place of resolved.insert(0, r)
RECURSIVE AppendResources(_, _, _)
AppendResources(t, j, s) ==
    IF j > Len(resources[t]) THEN s
    ELSE LET r == resources[t][j]
         IN IF r \in Range(s.resolved)
            THEN AppendResources(t, j + 1, s)
            ELSE AppendResources(t, j + 1, [resolved |-> Append(s.resolved, r), found |-> TRUE])

\* "for r in targets[t].resources: if r not in resolved: resolved.insert(0, r)"
RECURSIVE InsertResources(_, _, _)
InsertResources(t, j, s) ==
    IF j > Len(resources[t]) THEN s
    ELSE LET r == resources[t][j]
         IN IF r \in Range(s.resolved)
            THEN InsertResources(t, j + 1, s)
            ELSE InsertResources(t, j + 1, [resolved |-> <<r>> \o s.resolved, found |-> TRUE])

\* "for t in resolved" over the live list: the iterator is an index, and the
\* list grows at its front while it is walked
RECURSIVE PromoteScan(_, _)
PromoteScan(i, s) ==
    IF i > Len(s.resolved) THEN s
    ELSE PromoteScan(i + 1, InsertResources(s.resolved[i], 1, s))

\* "while True: ... if not found: break"
RECURSIVE PromoteResources(_)
PromoteResources(resolved) ==
    LET s == PromoteScan(1, [resolved |-> resolved, found |-> FALSE])
    IN IF s.found THEN PromoteResources(s.resolved) ELSE s.resolved

createBuildOrder(root) ==
    LET st == dependencyResolver(root, EmptyResolution)
    IN IF st.error # NoEdge
       THEN [ok |-> FALSE, order |-> <<>>, error |-> st.error]
       ELSE [ok |-> TRUE,
             order |-> IF package[root] THEN PromoteResources(st.resolved)
                       ELSE st.resolved,
             error |-> NoEdge]

\* ----------------------------------------------------------- values
\* Every string the program hashes or stores (a revision, a file's content, a
\* digest, the prefix) is a record of one shape, so that any two compare.
Atom(s, n) == [k |-> s, n |-> n, v |-> <<>>]

\* Python's None (Target.hash before the pass reaches the target)
None == Atom("None", <<>>)

\* a path that does not exist
NoFile == Atom("absent", <<>>)

\* hashlib.sha256(x).hexdigest(), taken as injective: the digest is named by
\* what was hashed.  x is a list of lines ('\n'.join(data)) or one content.
SHA256(x) == [k |-> "sha256", n |-> <<>>, v |-> x]

\* "if targets[d].hash:"
Truthy(h) == h # None

\* sorted(list) on names
RECURSIVE InsertSorted(_, _)
InsertSorted(s, x) ==
    IF s = <<>> THEN <<x>>
    ELSE IF x <= Head(s) THEN <<x>> \o s
    ELSE <<Head(s)>> \o InsertSorted(Tail(s), x)

RECURSIVE sorted(_)
sorted(s) == IF s = <<>> THEN <<>> ELSE InsertSorted(sorted(Tail(s)), Head(s))

\* ----------------------------------------------------------- calculateHash
\* the Target object of a name, as calculateHash reads it
TargetObj(t) == [name |-> t, sources |-> srcs[t], dependencies |-> deps[t],
                 patches |-> patches[t]]

\* "for d in sorted(target.dependencies): if targets[d].hash: data.append(..)"
\* over the hashes h of the registry
RECURSIVE DependencyHashes(_, _)
DependencyHashes(ds, h) ==
    IF ds = <<>> THEN <<>>
    ELSE (IF Truthy(h[Head(ds)]) THEN <<h[Head(ds)]>> ELSE <<>>)
         \o DependencyHashes(Tail(ds), h)

\* the body of calculateHash, for given contents of the registry and of the
\* script and patch files
Fingerprint(tg, pfx, srcH, h, patchF, scriptF) ==
    LET ss == sorted(tg.sources)
        ps == sorted(tg.patches)
        data == [i \in 1..Len(ss) |-> srcH[ss[i]]]
                \o DependencyHashes(sorted(tg.dependencies), h)
                \o [i \in 1..Len(ps) |-> SHA256(<<patchF[ps[i]]>>)]
                \o <<SHA256(<<scriptF[tg.name]>>)>>
                \o <<Atom(pfx, <<>>)>>
    IN SHA256(data)

\* calculateHash with "for d in target.dependencies" in place of the sorted walk
calculateHashDeclaredOrder(tg, pfx) ==
    LET ss == sorted(tg.sources)
        ps == sorted(tg.patches)
        data == [i \in 1..Len(ss) |-> srcHash[ss[i]]]
                \o DependencyHashes(tg.dependencies, hash)
                \o [i \in 1..Len(ps) |-> SHA256(<<patchFile[ps[i]]>>)]
                \o <<SHA256(<<scriptFile[tg.name]>>)>>
                \o <<Atom(pfx, <<>>)>>
    IN SHA256(data)

calculateHash(tg, pfx) == Fingerprint(tg, pfx, srcHash, hash, patchFile, scriptFile)

\* ------------------------------------------------------- initial states
\* a process that has just loaded and validated its rules: nothing hashed,
\* nothing built, nothing printed
FreshProcess ==
    /\ hash = [t \in Targets |-> None]
    /\ built = [t \in Targets |-> FALSE]
    /\ build_order = <<>>
    /\ errEdge = NoEdge
    /\ pos = 0
    /\ cur = 0
    /\ native = FALSE
    /\ log = <<>>
    /\ ran = <<>>
    /\ marked = {}
    /\ deployed = 0
    /\ exitStatus = 0
    /\ pc = "start"

\* a workspace after "clean": no output and no build directory
EmptyDisk ==
    /\ outDir = [t \in Targets |-> [exists |-> FALSE, files |-> {}]]
    /\ sidecar = [t \in Targets |-> NoFile]
    /\ buildDir = [t \in Targets |-> [exists |-> FALSE, staged |-> {}]]

\* the two pipes of create_subprocess_exec
Streams == {"stdout", "stderr"}

\* a future of readline() that is not done
Pending == [done |-> FALSE, line |-> 0]

\* process.returncode: None until the event loop has reaped the child
NoReturncode == [known |-> FALSE, code |-> 0]

\* no child process has been started
NoChild ==
    /\ script = <<>>
    /\ childCode = 0
    /\ inherited = FALSE
    /\ child = "none"
    /\ wrote = 0
    /\ pipe = [s \in Streams |-> <<>>]
    /\ fut = [s \in Streams |-> Pending]
    /\ returncode = NoReturncode
    /\ procPc = "idle"
    /\ emitted = <<>>
    /\ result = NoReturncode

\* validated rules: every name refers to a target, none to itself
Graphs(maxDeps, maxRes) ==
    /\ \E de \in DistinctSeqs(Edges, maxDeps) :
          deps = [t \in Targets |-> Adj(de, t)]
    /\ \E re \in DistinctSeqs(Edges, maxRes) :
          resources = [t \in Targets |-> Adj(re, t)]
    /\ archs \in [Targets -> ArchLists]

\* every target builds the source of its own number, unpatched
OwnSources ==
    /\ srcs = [t \in Targets |-> <<((t - 1) % NumSources) + 1>>]
    /\ patches = [t \in Targets |-> <<>>]
    /\ srcHash = [x \in SourceNames |-> Atom("rev", <<x, 0>>)]
    /\ patchFile = [x \in PatchNames |-> Atom("patch", <<x, 0>>)]
    /\ scriptFile = [t \in Targets |-> Atom("script", <<t, 0>>)]

\* ------------------------------------------- the resolver called on its own
\* (createNeededSourceList calls createBuildOrder(target, arch, False))
InitResolve ==
    /\ Graphs(MaxDepEdges, MaxResEdges)
    /\ arch \in RequestedArchs
    /\ target \in Targets
    /\ \E p \in BOOLEAN : package = [t \in Targets |-> t = target /\ p]
    /\ OwnSources
    /\ force = FALSE /\ no_clean = FALSE /\ prefix = "/usr/local"
    /\ local = FALSE /\ deploy = FALSE /\ hostArch = "linux-x64"
    /\ FreshProcess
    /\ EmptyDisk
    /\ run = 1
    /\ prevRun = [ok |-> FALSE, same |-> FALSE]
    /\ NoChild

CallCreateBuildOrder ==
    /\ pc = "start"
    /\ LET r == createBuildOrder(target)
       IN /\ pc' = IF r.ok THEN "resolved" ELSE "fatal"
          /\ exitStatus' = IF r.ok THEN 0 ELSE 255
          /\ build_order' = r.order
          /\ errEdge' = r.error
    /\ UNCHANGED <<ruleVars, scriptFile, argVars, force, memVars, diskVars,
                   pos, cur, native, log, ran, marked, deployed, run, prevRun, procVars>>

NextResolve == CallCreateBuildOrder

SpecResolve == InitResolve /\ [][NextResolve]_vars

\* ---------------------------------------------------------------- buildCode
\* log_error: prints the message and leaves the process with sys.exit(-1)
FatalExit ==
    /\ pc' = "fatal"
    /\ exitStatus' = 255

\* an exception nobody catches (libvcs' run() on a failed rsync, an attribute
\* of a str): the interpreter prints the traceback and exits with status 1
Crash ==
    /\ pc' = "crashed"
    /\ exitStatus' = 1

\* the mode is chosen without lines 372-373: a local build for another
\* architecture than the host's is let through
BuildCodeEnterLocalUnchecked ==
    /\ pc = "start"
    /\ IF \/ deploy /\ ~local
          \/ arch # hostArch /\ arch \in native_only_architectures
       THEN /\ FatalExit
            /\ UNCHANGED <<build_order, errEdge, native>>
       ELSE LET r == createBuildOrder(target)
            IN /\ native' = (arch = hostArch /\ (arch \in native_only_architectures \/ local))
               /\ build_order' = r.order
               /\ errEdge' = r.error
               /\ IF r.ok THEN pc' = "loop" /\ exitStatus' = 0 ELSE FatalExit
    /\ UNCHANGED <<ruleVars, scriptFile, argVars, force, memVars, diskVars,
                   pos, cur, log, ran, marked, deployed, run, prevRun, procVars>>

\* lines 365-379: the choice of the execution mode, then the build order
BuildCodeEnter ==
    /\ pc = "start"
    /\ IF \/ deploy /\ ~local
          \/ arch # hostArch /\ arch \in native_only_architectures
          \/ arch # hostArch /\ local
       THEN /\ FatalExit
            /\ UNCHANGED <<build_order, errEdge, native>>
       ELSE LET r == createBuildOrder(target)
            IN /\ native' = (arch = hostArch /\ (arch \in native_only_architectures \/ local))
               /\ build_order' = r.order
               /\ errEdge' = r.error
               /\ IF r.ok THEN pc' = "loop" /\ exitStatus' = 0 ELSE FatalExit
    /\ UNCHANGED <<ruleVars, scriptFile, argVars, force, memVars, diskVars,
                   pos, cur, log, ran, marked, deployed, run, prevRun, procVars>>

\* a gate without the cascade: "forceBuild = force" alone
forceBuildWithoutCascade(t) == force

\* lines 387-389: force, or a direct dependency rebuilt by this process
forceBuild(t) == force \/ \E i \in 1..Len(deps[t]) : built[deps[t][i]]

\* lines 391-392, for the fingerprint h just computed
CacheHit(t, h) == ~forceBuild(t) /\ sidecar[t] # NoFile /\ h = sidecar[t]

\* lines 381-394: the next target of the list is hashed and skipped
GateSkip ==
    /\ pc = "loop"
    /\ pos < Len(build_order)
    /\ LET t == build_order[pos + 1]
           h == calculateHash(TargetObj(t), prefix)
       IN /\ CacheHit(t, h)
          /\ pos' = pos + 1
          /\ cur' = t
          /\ hash' = [hash EXCEPT ![t] = h]
          /\ log' = Append(log, <<"skipping", t, pos + 1, Len(build_order)>>)
    /\ UNCHANGED <<ruleVars, scriptFile, argVars, force, built, diskVars,
                   build_order, errEdge, native, ran, marked, deployed,
                   exitStatus, pc, run, prevRun, procVars>>

\* lines 424-436: "for d in deps", the rsync of every needed dep_dir.  od and
\* sc are the output directories and sidecars as they are when the loop
\* starts; self is the target being staged; pkg says where the copy goes.
\* rsync fails on a dep_dir that does not exist; raises says whether run()
\* turns that into an exception.
RECURSIVE StageOutputs(_, _, _, _, _, _, _)
StageOutputs(ds, self, pkg, od, sc, raises, acc) ==
    IF ds = <<>> \/ acc.failed THEN acc
    ELSE LET d == Head(ds)
             line == Append(acc.lines, <<"copy", self, d, 0>>)
             rest == Tail(ds)
         IN IF ArchExcluded(d)
            THEN StageOutputs(rest, self, pkg, od, sc, raises, acc)
            ELSE IF pkg /\ d = self
            THEN StageOutputs(rest, self, pkg, od, sc, raises,
                              [acc EXCEPT !.lines = line, !.names = @ \cup {d}])
            ELSE IF ~od[d].exists
            THEN StageOutputs(rest, self, pkg, od, sc, raises,
                              [acc EXCEPT !.lines = line, !.failed = raises])
            ELSE StageOutputs(rest, self, pkg, od, sc, raises,
                              [acc EXCEPT !.lines = line,
                                          !.names = @ \cup {d},
                                          !.files = @ \cup od[d].files,
                                          !.sidecar = IF sc[d] # NoFile THEN sc[d] ELSE @])

NothingStaged == [lines |-> <<>>, names |-> {}, files |-> {}, sidecar |-> NoFile,
                  failed |-> FALSE]

\* lines 381-439: the next target of the list is hashed and not skipped; its
\* output directory is recreated, its inputs are staged and its script starts
GateStage ==
    /\ pc = "loop"
    /\ pos < Len(build_order)
    /\ LET t == build_order[pos + 1]
           h == calculateHash(TargetObj(t), prefix)
           od == [outDir EXCEPT ![t] = [exists |-> TRUE, files |-> {}]]
           sc == [sidecar EXCEPT ![t] = NoFile]
           keep == no_clean /\ buildDir[t].exists
           popped == SubSeq(build_order, 1, Len(build_order) - 1)
           ds == IF package[t] THEN popped ELSE deps[t]
       IN /\ ~CacheHit(t, h)
          /\ pos' = pos + 1
          /\ cur' = t
          /\ hash' = [hash EXCEPT ![t] = h]
          /\ \E raises \in BOOLEAN :
                LET st == IF keep THEN NothingStaged
                          ELSE StageOutputs(ds, t, package[t], od, sc, raises, NothingStaged)
                IN /\ log' = Append(log, <<"building", t, pos + 1, Len(build_order)>>) \o st.lines
                   /\ build_order' = IF ~keep /\ package[t] THEN popped ELSE build_order
                   /\ outDir' = IF package[t] THEN [od EXCEPT ![t].files = st.files] ELSE od
                   /\ sidecar' = IF package[t] THEN [sc EXCEPT ![t] = st.sidecar] ELSE sc
                   /\ buildDir' = IF keep \/ package[t] THEN buildDir
                                  ELSE [buildDir EXCEPT ![t] =
                                          [exists |-> TRUE,
                                           staged |-> {<<"src", srcs[t][i]>> : i \in 1..Len(srcs[t])}
                                                      \cup {<<"dep", d>> : d \in st.names}]]
                   /\ IF st.failed
                      THEN Crash /\ ran' = ran
                      ELSE /\ pc' = "exec"
                           /\ exitStatus' = exitStatus
                           /\ ran' = Append(ran, [name |-> t, native |-> native])
    /\ UNCHANGED <<ruleVars, scriptFile, argVars, force, built, errEdge, native,
                   marked, deployed, run, prevRun, procVars>>

\* lines 439-451 with code = 0: the sidecar is written, the target is marked
\* built and its build directory is removed
ScriptSucceeds ==
    /\ pc = "exec"
    /\ outDir' = [outDir EXCEPT ![cur].files =
                     @ \cup {[by |-> cur, fp |-> hash[cur], complete |-> TRUE]}]
    /\ sidecar' = [sidecar EXCEPT ![cur] = hash[cur]]
    /\ marked' = marked \cup {cur}
    /\ built' = [built EXCEPT ![cur] = TRUE]
    /\ buildDir' = IF ~no_clean /\ ~package[cur]
                   THEN [buildDir EXCEPT ![cur] = [exists |-> FALSE, staged |-> {}]]
                   ELSE buildDir
    /\ pc' = "loop"
    /\ UNCHANGED <<ruleVars, scriptFile, argVars, force, hash, passVars, log,
                   ran, deployed, exitStatus, run, prevRun, procVars>>

\* a pass that marks the build finished before it looks at the exit code
ScriptFailsAfterMarking ==
    /\ pc = "exec"
    /\ outDir' = [outDir EXCEPT ![cur].files =
                     @ \cup {[by |-> cur, fp |-> hash[cur], complete |-> FALSE]}]
    /\ sidecar' = [sidecar EXCEPT ![cur] = hash[cur]]
    /\ marked' = marked \cup {cur}
    /\ built' = [built EXCEPT ![cur] = TRUE]
    /\ FatalExit
    /\ UNCHANGED <<ruleVars, scriptFile, argVars, force, hash, buildDir,
                   passVars, log, ran, deployed, run, prevRun, procVars>>

\* lines 439-441 with code # 0: whatever the script wrote stays, log_error
ScriptFails ==
    /\ pc = "exec"
    /\ outDir' = [outDir EXCEPT ![cur].files =
                     @ \cup {[by |-> cur, fp |-> hash[cur], complete |-> FALSE]}]
    /\ FatalExit
    /\ UNCHANGED <<ruleVars, scriptFile, argVars, force, memVars, sidecar,
                   buildDir, passVars, log, ran, marked, deployed, run, prevRun, procVars>>

\* lines 453-459: the list is exhausted; deploy copies the output of the
\* loop's last target ("target" was rebound by the loop; it is still the
\* name, a str without .name, when the loop had nothing to walk)
LoopEnd ==
    /\ pc = "loop"
    /\ pos >= Len(build_order)
    /\ IF ~deploy THEN pc' = "done" /\ UNCHANGED <<deployed, exitStatus>>
       ELSE IF cur = 0 THEN Crash /\ UNCHANGED deployed
       ELSE pc' = "done" /\ deployed' = cur /\ UNCHANGED exitStatus
    /\ UNCHANGED <<ruleVars, scriptFile, argVars, force, memVars, diskVars,
                   passVars, log, ran, marked, run, prevRun, procVars>>

\* ------------------------------------------------- one process after another
\* A later invocation of the build starts from the rules as loaded (no hash,
\* nothing built) and from the disk as the earlier one left it.
NewProcess ==
    /\ pc \in {"done", "fatal", "crashed"}
    /\ run < MaxRuns
    /\ run' = run + 1
    /\ hash' = [t \in Targets |-> None]
    /\ built' = [t \in Targets |-> FALSE]
    /\ build_order' = <<>>
    /\ errEdge' = NoEdge
    /\ pos' = 0
    /\ cur' = 0
    /\ native' = FALSE
    /\ log' = <<>>
    /\ ran' = <<>>
    /\ marked' = {}
    /\ deployed' = 0
    /\ exitStatus' = 0
    /\ pc' = "start"
    /\ UNCHANGED <<ruleVars, argVars, procVars>>

\* the operator runs the build again, nothing touched in between
Rerun ==
    /\ NewProcess
    /\ force' \in BOOLEAN
    /\ prevRun' = [ok |-> pc = "done", same |-> force' = force]
    /\ UNCHANGED <<scriptFile, diskVars>>

\* the operator edits the script of a target of the last pass, then builds
RerunAfterEdit(t) ==
    /\ NewProcess
    /\ hash[t] # None
    /\ scriptFile' = [scriptFile EXCEPT ![t] = Atom("script", <<t, run>>)]
    /\ force' \in BOOLEAN
    /\ prevRun' = [ok |-> pc = "done", same |-> FALSE]
    /\ UNCHANGED diskVars

\* the operator removes an output directory, then builds
RerunAfterRemoval(t) ==
    /\ NewProcess
    /\ outDir[t].exists
    /\ outDir' = [outDir EXCEPT ![t] = [exists |-> FALSE, files |-> {}]]
    /\ sidecar' = [sidecar EXCEPT ![t] = NoFile]
    /\ force' \in BOOLEAN
    /\ prevRun' = [ok |-> pc = "done", same |-> FALSE]
    /\ UNCHANGED <<scriptFile, buildDir>>

\* the number of declarations of a rule set beyond its bare targets
RECURSIVE Sum(_, _)
Sum(f, S) == IF S = {} THEN 0
             ELSE LET x == CHOOSE y \in S : TRUE IN f[x] + Sum(f, S \ {x})

Declarations ==
    Sum([t \in Targets |-> Len(deps[t]) + Len(resources[t])
                           + (IF archs[t] # <<>> THEN 1 ELSE 0)
                           + (IF package[t] THEN 1 ELSE 0)], Targets)

\* the arguments of a build pass on a linux-x64 host: a cross build in the
\* container, or a local build that is deployed
BuildModes == {<<"linux-x64", FALSE, FALSE>>, <<"linux-arm64", FALSE, FALSE>>,
               <<"linux-x64", TRUE, TRUE>>}

InitBuild ==
    /\ Graphs(BuildDepEdges, BuildResEdges)
    /\ package \in [Targets -> BOOLEAN]
    /\ Declarations <= MaxDecls
    /\ target \in Targets
    /\ OwnSources
    /\ force \in BOOLEAN
    /\ no_clean \in BOOLEAN
    /\ prefix = "/usr/local"
    /\ hostArch = "linux-x64"
    /\ \E m \in BuildModes : arch = m[1] /\ local = m[2] /\ deploy = m[3]
    /\ FreshProcess
    /\ EmptyDisk
    /\ run = 1
    /\ prevRun = [ok |-> FALSE, same |-> FALSE]
    /\ NoChild

NextBuild ==
    \/ BuildCodeEnter
    \/ GateSkip
    \/ GateStage
    \/ ScriptSucceeds
    \/ ScriptFails
    \/ LoopEnd
    \/ Rerun
    \/ \E t \in Targets : RerunAfterEdit(t)
    \/ \E t \in Targets : RerunAfterRemoval(t)

SpecBuild == InitBuild /\ [][NextBuild]_vars

\* ------------------------------------------- calculateHash called on its own
\* The target hashed has its three lists declared in any order; every source
\* is at its own revision and every file has its own content.
SomeDigests == {None, SHA256(<<Atom("a", <<>>)>>), SHA256(<<Atom("b", <<>>)>>)}

InitHash ==
    /\ target \in Targets
    /\ arch = "linux-x64"
    /\ \E ds \in DistinctSeqs(Targets \ {target}, MaxListLen) :
          deps = [t \in Targets |-> IF t = target THEN ds ELSE <<>>]
    /\ \E ss \in DistinctSeqs(SourceNames, MaxListLen) :
          srcs = [t \in Targets |-> IF t = target THEN ss ELSE <<>>]
    /\ \E ps \in DistinctSeqs(PatchNames, MaxListLen) :
          patches = [t \in Targets |-> IF t = target THEN ps ELSE <<>>]
    /\ resources = [t \in Targets |-> <<>>]
    /\ archs = [t \in Targets |-> <<>>]
    /\ package = [t \in Targets |-> FALSE]
    /\ srcHash = [x \in SourceNames |-> Atom("rev", <<x, 0>>)]
    /\ patchFile = [x \in PatchNames |-> Atom("patch", <<x, 0>>)]
    /\ scriptFile = [t \in Targets |-> Atom("script", <<t, 0>>)]
    /\ prefix \in {"/usr/local", "/opt"}
    /\ force = FALSE /\ no_clean = FALSE
    /\ local = FALSE /\ deploy = FALSE /\ hostArch = "linux-x64"
    /\ FreshProcess
    /\ EmptyDisk
    /\ run = 1
    /\ prevRun = [ok |-> FALSE, same |-> FALSE]
    /\ NoChild

\* the dependencies were hashed by the pass before the target is
HashDependencies ==
    /\ pc = "start"
    /\ \E h \in [Targets -> SomeDigests] :
          /\ h[target] = None
          /\ hash' = h
    /\ pc' = "hashing"
    /\ UNCHANGED <<ruleVars, scriptFile, argVars, force, built, diskVars,
                   passVars, outVars, run, prevRun, procVars>>

\* line 384: target.hash = calculateHash(target, prefix)
HashTarget ==
    /\ pc = "hashing"
    /\ hash' = [hash EXCEPT ![target] = calculateHash(TargetObj(target), prefix)]
    /\ pc' = "hashed"
    /\ UNCHANGED <<ruleVars, scriptFile, argVars, force, built, diskVars,
                   passVars, outVars, run, prevRun, procVars>>

NextHash == HashDependencies \/ HashTarget

SpecHash == InitHash /\ [][NextHash]_vars

\* ----------------------------------------------- buildCode in every mode
\* Plain targets (no whitelist, no package) built on any host for any
\* architecture, locally or not, deployed or not.
InitMode ==
    /\ \E de \in DistinctSeqs(Edges, ModeDepEdges) :
          deps = [t \in Targets |-> Adj(de, t)]
    /\ resources = [t \in Targets |-> <<>>]
    /\ archs = [t \in Targets |-> <<>>]
    /\ package = [t \in Targets |-> FALSE]
    /\ target \in Targets
    /\ OwnSources
    /\ force \in BOOLEAN
    /\ no_clean = FALSE
    /\ prefix = "/usr/local"
    /\ hostArch \in architectures
    /\ arch \in architectures
    /\ local \in BOOLEAN
    /\ deploy \in BOOLEAN
    /\ FreshProcess
    /\ EmptyDisk
    /\ run = 1
    /\ prevRun = [ok |-> FALSE, same |-> FALSE]
    /\ NoChild

SpecMode == InitMode /\ [][NextBuild]_vars

\* ------------------------------------------------ run_process on its own
\* executeBuild hands the script of a target to run_live.  The child is bash
\* (or docker) running the script: it writes its lines one after the other,
\* each to stdout or to stderr, then exits.  A line is named by its position
\* in what the child writes; readline() returning b'' is the line 0.
ExitCodes == {0, 1}

\* the sequences of at most k elements of S
RECURSIVE Seqs(_, _)
Seqs(S, k) ==
    IF k = 0 THEN {<<>>}
    ELSE LET r == Seqs(S, k - 1)
         IN r \cup UNION {{Append(q, e) : e \in S} : q \in r}

\* line 261: the child exists, its two pipes are empty, the coroutine is
\* about to go on after "await asyncio.create_subprocess_exec"
InitProc ==
    /\ deps = [t \in Targets |-> <<>>]
    /\ resources = [t \in Targets |-> <<>>]
    /\ archs = [t \in Targets |-> <<>>]
    /\ package = [t \in Targets |-> FALSE]
    /\ target = NumTargets
    /\ arch = "linux-x64"
    /\ OwnSources
    /\ force = FALSE /\ no_clean = FALSE /\ prefix = "/usr/local"
    /\ local = FALSE /\ deploy = FALSE /\ hostArch = "linux-x64"
    /\ FreshProcess
    /\ EmptyDisk
    /\ run = 1
    /\ prevRun = [ok |-> FALSE, same |-> FALSE]
    /\ script \in Seqs(Streams, MaxLines)
    /\ childCode \in ExitCodes
    /\ inherited \in BOOLEAN
    /\ child = "running"
    /\ wrote = 0
    /\ pipe = [s \in Streams |-> <<>>]
    /\ fut = [s \in Streams |-> Pending]
    /\ returncode = NoReturncode
    /\ procPc = "created"
    /\ emitted = <<>>
    /\ result = NoReturncode

\* the child writes its next line; the write blocks while the pipe is full
ChildWrite ==
    /\ child = "running"
    /\ wrote < Len(script)
    /\ LET s == script[wrote + 1]
       IN /\ Len(pipe[s]) < PipeCap
          /\ pipe' = [pipe EXCEPT ![s] = Append(@, wrote + 1)]
    /\ wrote' = wrote + 1
    /\ UNCHANGED <<buildVars, script, childCode, inherited, child, fut,
                   returncode, procPc, emitted, result>>

\* the child exits after its last line; its ends of the pipes are closed
ChildExit ==
    /\ child = "running"
    /\ wrote = Len(script)
    /\ child' = "exited"
    /\ UNCHANGED <<buildVars, script, childCode, inherited, wrote, pipe, fut,
                   returncode, procPc, emitted, result>>

\* a process the child left behind closes the stdout and stderr it inherited
DescendantCloses ==
    /\ child = "exited"
    /\ inherited
    /\ inherited' = FALSE
    /\ UNCHANGED <<buildVars, script, childCode, child, wrote, pipe, fut,
                   returncode, procPc, emitted, result>>

\* every write end of the pipes is closed
WriteEndsClosed == child = "exited" /\ ~inherited

\* the event loop runs while run_until_complete has not returned (line 282)
LoopRunning == procPc \in {"created", "wait"}

\* process.stdout.readline() / process.stderr.readline() completes: with the
\* next line of the stream, or with b'' at end of file
ReadLine(s) ==
    /\ procPc = "wait"
    /\ ~fut[s].done
    /\ IF pipe[s] # <<>>
       THEN /\ fut' = [fut EXCEPT ![s] = [done |-> TRUE, line |-> Head(pipe[s])]]
            /\ pipe' = [pipe EXCEPT ![s] = Tail(@)]
       ELSE /\ WriteEndsClosed
            /\ fut' = [fut EXCEPT ![s] = [done |-> TRUE, line |-> 0]]
            /\ pipe' = pipe
    /\ UNCHANGED <<buildVars, script, childCode, inherited, child, wrote,
                   returncode, procPc, emitted, result>>

\* the event loop learns that the child has exited: process.returncode is set
Reap ==
    /\ LoopRunning
    /\ child = "exited"
    /\ ~returncode.known
    /\ returncode' = [known |-> TRUE, code |-> childCode]
    /\ UNCHANGED <<buildVars, script, childCode, inherited, child, wrote, pipe,
                   fut, procPc, emitted, result>>

\* lines 269-273 and 274-278 for one future: a line that is not b'' is
\* printed and the next readline() is scheduled
Handle(s, st) ==
    IF st.fut[s].done /\ st.fut[s].line # 0
    THEN [fut |-> [st.fut EXCEPT ![s] = Pending],
          emitted |-> Append(st.emitted, st.fut[s].line)]
    ELSE st

\* line 266 and line 279: "while process.returncode is None", else return
LoopTest ==
    IF returncode.known
    THEN procPc' = "returned" /\ result' = returncode
    ELSE procPc' = "wait" /\ result' = result

\* lines 264-266: the two futures are created and the loop is entered
EnterLoop ==
    /\ procPc = "created"
    /\ fut' = [s \in Streams |-> Pending]
    /\ LoopTest
    /\ UNCHANGED <<buildVars, script, childCode, inherited, child, wrote, pipe,
                   returncode, emitted>>

\* lines 268-278, then 266: asyncio.wait returns because a future is done;
\* stdout_f is looked at first, then stderr_f, then the loop condition
Wake ==
    /\ procPc = "wait"
    /\ \E s \in Streams : fut[s].done
    /\ LET st == Handle("stderr", Handle("stdout", [fut |-> fut, emitted |-> emitted]))
       IN /\ fut' = st.fut
          /\ emitted' = st.emitted
    /\ LoopTest
    /\ UNCHANGED <<buildVars, script, childCode, inherited, child, wrote, pipe,
                   returncode>>

NextProc ==
    \/ ChildWrite
    \/ ChildExit
    \/ DescendantCloses
    \/ \E s \in Streams : ReadLine(s)
    \/ Reap
    \/ EnterLoop
    \/ Wake

SpecProc == InitProc /\ [][NextProc]_vars

\* the event loop runs every callback that is ready and resumes the coroutine
\* when its wait is over; nothing is assumed of the child and of what it
\* left behind
SpecProcLive ==
    /\ SpecProc
    /\ \A s \in Streams : WF_vars(ReadLine(s))
    /\ WF_vars(Reap)
    /\ WF_vars(EnterLoop)
    /\ WF_vars(Wake)

\* ======================================================================
\* Properties of the resolver.  The graph notions below are stated from the
\* rule declarations alone, independently of the resolver's own operators.
\* ======================================================================
DepEdgeSet == {e \in Targets \X Targets : e[2] \in Range(deps[e[1]])}

\* t builds for the requested architecture: no whitelist, or one naming it
Applicable(t) == archs[t] = <<>> \/ \E i \in 1..Len(archs[t]) : archs[t][i] = arch

ApplicableEdgeSet == {e \in DepEdgeSet : Applicable(e[1]) /\ Applicable(e[2])}

RECURSIVE Closure(_, _)
Closure(E, S) ==
    LET n == S \cup {b \in Targets : \E a \in S : <<a, b>> \in E}
    IN IF n = S THEN S ELSE Closure(E, n)

\* the targets reached from a along one or more edges of E
ReachFrom(E, a) == Closure(E, {b \in Targets : <<a, b>> \in E})

OnCycle(E, a) == a \in ReachFrom(E, a)
EdgeOnCycle(E, e) == e \in E /\ e[1] \in ({e[2]} \cup ReachFrom(E, e[2]))
Acyclic(E) == \A a \in Targets : ~OnCycle(E, a)
CycleReachable(E, root) == \E a \in {root} \cup ReachFrom(E, root) : OnCycle(E, a)

\* a is listed strictly before b
Before(s, a, b) == Index(s, a) # 0 /\ Index(s, b) # 0 /\ Index(s, a) < Index(s, b)

\* C1: on an acyclic graph, every dependency of a listed target that its own
\* arch whitelist does not exclude is listed strictly before that target.
C1_DependenciesBeforeDependents ==
    (pc = "resolved" /\ Acyclic(DepEdgeSet)) =>
        \A t \in Range(build_order) :
            \A d \in Range(deps[t]) :
                Applicable(d) => Before(build_order, d, t)

\* C2: a cycle reachable from the root through dependency edges always ends
\* resolution in the cycle error, which names a dependency edge on a cycle;
\* on an acyclic graph the error is never raised.
C2_ReachableCycleIsFatal ==
    pc # "start" =>
        /\ CycleReachable(DepEdgeSet, target) =>
              pc = "fatal" /\ EdgeOnCycle(DepEdgeSet, errEdge)
        /\ Acyclic(DepEdgeSet) => pc # "fatal"

\* C2 (amended): the cycle error is raised exactly when the root is applicable
\* to the requested architecture and a cycle of applicable targets is reachable
\* from it through applicable targets; the edge it names is a dependency edge
\* on such a cycle.  On an acyclic graph it is never raised.
C2_ApplicableCycleIsFatal ==
    pc # "start" =>
        /\ pc = "fatal" <=>
              (Applicable(target) /\ CycleReachable(ApplicableEdgeSet, target))
        /\ pc = "fatal" => EdgeOnCycle(ApplicableEdgeSet, errEdge)
        /\ Acyclic(DepEdgeSet) => pc # "fatal"

\* witness of C2: the error was raised for a cycle that does not pass through
\* the root
C2_Witness ==
    /\ pc = "fatal"
    /\ errEdge # NoEdge
    /\ ~OnCycle(DepEdgeSet, target)

\* C3: no arch-excluded target is listed, and every applicable target reached
\* from the root along applicable targets is listed.
C3_ArchFiltering ==
    pc = "resolved" =>
        /\ \A t \in Range(build_order) : Applicable(t)
        /\ Applicable(target) =>
              \A t \in {target} \cup ReachFrom(ApplicableEdgeSet, target) :
                  t \in Range(build_order)

\* C4: with a package root, every resource of every listed target is listed
\* strictly before that target.
C4_ResourcesBeforeMembers ==
    (pc = "resolved" /\ package[target]) =>
        \A t \in Range(build_order) :
            \A r \in Range(resources[t]) : Before(build_order, r, t)

\* C4 (amended): with a package root, every resource of every listed target is
\* listed, and unless it is the root itself it is listed strictly before the
\* root package.
C4_ResourcesBeforePackage ==
    (pc = "resolved" /\ package[target]) =>
        \A t \in Range(build_order) :
            \A r \in Range(resources[t]) :
                /\ r \in Range(build_order)
                /\ r # target => Before(build_order, r, target)

\* witness of C4: a resource of a resource of the package root was promoted
C4_Witness ==
    /\ pc = "resolved"
    /\ package[target]
    /\ \E r \in Range(resources[target]) :
          /\ r \notin ReachFrom(DepEdgeSet, target)
          /\ \E q \in Range(resources[r]) :
                /\ q \notin {target} \cup ReachFrom(DepEdgeSet, target)
                /\ Before(build_order, q, r)

\* ======================================================================
\* Properties of the fingerprint and of the build pass.
\* ======================================================================
\* the orderings of a list
Perms(s) == {p \in DistinctSeqs(Range(s), Len(s)) : Len(p) = Len(s)}

\* the targets the pass has taken from the list so far, in that order
RECURSIVE StepsOf(_)
StepsOf(l) ==
    IF l = <<>> THEN <<>>
    ELSE (IF Head(l)[1] \in {"skipping", "building"} THEN <<Head(l)[2]>> ELSE <<>>)
         \o StepsOf(Tail(l))

Processed == StepsOf(log)
Skipped == {log[i][2] : i \in {j \in 1..Len(log) : log[j][1] = "skipping"}}
Executed == {ran[i].name : i \in 1..Len(ran)}

\* the list createBuildOrder returned to this pass (the pass shortens its copy)
ResolvedOrder == createBuildOrder(target).order

\* C5: a pass with force = false that follows a successful pass with the same
\* arguments and nothing changed runs no script and skips every target of the
\* resolved build order.
C5_SecondRunExecutesNothing ==
    (run > 1 /\ prevRun.ok /\ prevRun.same /\ ~force) =>
        /\ ran = <<>>
        /\ pc = "done" => \A t \in Range(ResolvedOrder) : t \in Skipped

\* C6: in a pass that completes, when the script of D was executed then the
\* script of every target of the build order that depends on D, directly or
\* transitively, was executed too.
C6_CascadeReachesEveryDependent ==
    pc = "done" =>
        \A d \in Executed :
            \A t \in Range(ResolvedOrder) :
                d \in ReachFrom(DepEdgeSet, t) => t \in Executed

\* C7: the fingerprint of a target does not depend on the order in which its
\* sources, dependencies and patches are declared.
C7_HashIgnoresDeclarationOrder ==
    pc = "hashed" =>
        \A ss \in Perms(srcs[target]) :
            \A ds \in Perms(deps[target]) :
                \A ps \in Perms(patches[target]) :
                    calculateHash([name |-> target, sources |-> ss,
                                   dependencies |-> ds, patches |-> ps], prefix)
                        = hash[target]

\* witness of C7: two dependencies with different hashes, two sources at
\* different revisions and two patches of different content, all declared
\* against the sorted order
C7_Witness ==
    /\ pc = "hashed"
    /\ Len(deps[target]) = 2 /\ deps[target][1] > deps[target][2]
    /\ Truthy(hash[deps[target][1]]) /\ Truthy(hash[deps[target][2]])
    /\ hash[deps[target][1]] # hash[deps[target][2]]
    /\ Len(srcs[target]) = 2 /\ srcs[target][1] > srcs[target][2]
    /\ srcHash[srcs[target][1]] # srcHash[srcs[target][2]]
    /\ Len(patches[target]) = 2 /\ patches[target][1] > patches[target][2]
    /\ patchFile[patches[target][1]] # patchFile[patches[target][2]]

\* lines 381-384 over a whole list: the fingerprints a pass assigns when it
\* walks order with the given prefix, revisions and file contents
RECURSIVE PassFingerprints(_, _, _, _, _, _, _)
PassFingerprints(order, i, h, pfx, srcH, patchF, scriptF) ==
    IF i > Len(order) THEN h
    ELSE PassFingerprints(order, i + 1,
            [h EXCEPT ![order[i]] =
                Fingerprint(TargetObj(order[i]), pfx, srcH, h, patchF, scriptF)],
            pfx, srcH, patchF, scriptF)

NoHashes == [t \in Targets |-> None]
Edited(t) == [scriptFile EXCEPT ![t] = Atom("script", <<t, MaxRuns + 1>>)]
Repinned(x) == [srcHash EXCEPT ![x] = Atom("rev", <<x, 1>>)]

\* C8: for every target T that a completed pass hashed, the pass assigns T
\* another fingerprint when a source of T is at another revision, when T's
\* script has another content, when the prefix is another one, or when a
\* target that T depends on, directly or transitively, has another fingerprint.
C8_FingerprintSensitivity ==
    pc = "done" =>
        \A t \in Range(Processed) :
            /\ \A i \in 1..Len(srcs[t]) :
                  PassFingerprints(Processed, 1, NoHashes, prefix,
                                   Repinned(srcs[t][i]), patchFile, scriptFile)[t] # hash[t]
            /\ PassFingerprints(Processed, 1, NoHashes, prefix,
                                srcHash, patchFile, Edited(t))[t] # hash[t]
            /\ PassFingerprints(Processed, 1, NoHashes, "/opt",
                                srcHash, patchFile, scriptFile)[t] # hash[t]
            /\ \A d \in ReachFrom(DepEdgeSet, t) \cap Range(Processed) :
                  LET alt == PassFingerprints(Processed, 1, NoHashes, prefix,
                                              srcHash, patchFile, Edited(d))
                  IN alt[d] # hash[d] => alt[t] # hash[t]

\* the loop took a target from the list and skipped it
SkipStep == pc = "loop" /\ pos' = pos + 1 /\ pc' = "loop"
\* the loop took a target from the list and went on to build it
BuildStep == pc = "loop" /\ pos' = pos + 1 /\ pc' # "loop"

\* C9: a target is skipped exactly when its sidecar exists and holds the
\* fingerprint just computed, force is false and no direct dependency has
\* built = true; skipping runs no script, and from then to the end of the
\* process the output directory, the sidecar and the built flag of a skipped
\* target stay as they were.
C9_SkipIffCacheValid ==
    [][/\ (pc = "loop" /\ pos' = pos + 1) =>
            LET t == build_order[pos + 1]
                valid == /\ sidecar[t] # NoFile
                         /\ sidecar[t] = hash'[t]
                         /\ ~force
                         /\ \A i \in 1..Len(deps[t]) : ~built[deps[t][i]]
            IN /\ SkipStep <=> valid
               /\ BuildStep <=> ~valid
               /\ SkipStep => /\ diskVars' = diskVars
                              /\ built' = built
                              /\ ran' = ran
                              /\ t \in Skipped'
       /\ run' = run =>
            \A t \in Skipped : /\ outDir'[t] = outDir[t]
                               /\ sidecar'[t] = sidecar[t]
                               /\ built'[t] = built[t]
                               /\ t \notin Executed']_vars

\* witness of C9: a target was skipped in a pass that rebuilt another one
C9_Witness ==
    /\ pc = "done"
    /\ Skipped # {}
    /\ Executed # {}
    /\ \E t \in Range(Processed) \ Skipped : deps[t] # <<>>

\* the process ended in log_error after a script was started
ScriptFailed == pc = "fatal" /\ pos > 0

\* C10: when a script exits with a non-zero code the pass ends there: the
\* sidecar of the target is not written (the recreated output directory of a
\* target that is no package has none), its built flag is false, no later
\* target of the build order is hashed, staged or executed, nothing is
\* deployed and the exit status is not 0.
C10_ScriptFailureAbortsPass ==
    ScriptFailed =>
        /\ cur = ResolvedOrder[pos]
        /\ ran[Len(ran)].name = cur
        /\ cur \notin marked
        /\ ~package[cur] => sidecar[cur] = NoFile
        /\ ~built[cur]
        /\ \A i \in (pos + 1)..Len(ResolvedOrder) :
              LET t == ResolvedOrder[i]
              IN /\ hash[t] = None
                 /\ t \notin Range(Processed)
                 /\ t \notin Executed
                 /\ ~built[t]
        /\ deployed = 0
        /\ exitStatus # 0

\* witness of C10: the script of a target that is not the last one failed in a
\* pass that was to deploy
C10_Witness ==
    /\ ScriptFailed
    /\ pos < Len(ResolvedOrder)
    /\ deploy
    /\ Len(ran) > 1

\* the arguments buildCode refuses
IllegalMode ==
    \/ deploy /\ ~local
    \/ arch \in native_only_architectures /\ arch # hostArch
    \/ local /\ arch # hostArch

\* C11: with deploy without local, a native-only arch that is not the host's,
\* or local with an arch that is not the host's, buildCode ends in the fatal
\* error with no target hashed, no directory changed and no script run; with
\* any other arguments none of these errors is raised and every script of the
\* pass runs natively iff arch is the host's and (arch is native-only or local
\* is set), in the container otherwise.
C11_ModeSelection ==
    pc # "start" =>
        IF IllegalMode
        THEN /\ pc = "fatal"
             /\ exitStatus # 0
             /\ hash = NoHashes
             /\ build_order = <<>> /\ pos = 0
             /\ EmptyDisk
             /\ ran = <<>> /\ log = <<>> /\ deployed = 0
        ELSE /\ pc = "fatal" => (errEdge # NoEdge \/ pos > 0)
             /\ \A i \in 1..Len(ran) :
                   ran[i].native <=>
                       (arch = hostArch /\ (arch \in native_only_architectures \/ local))

\* witness of C11: a pass that ran two scripts natively for a native-only
\* architecture without the local flag
C11_Witness ==
    /\ pc = "done"
    /\ Len(ran) > 1
    /\ ran[1].native /\ ran[2].native
    /\ arch \in native_only_architectures
    /\ ~local

\* C12: whenever createBuildOrder returns, the list is not empty and its last
\* element is the requested root, also after the promotion of resources.
C12_RootIsLast ==
    pc = "resolved" =>
        /\ build_order # <<>>
        /\ build_order[Len(build_order)] = target

\* C13: a pass in which no script fails takes every target of the list that
\* createBuildOrder returned through the cache gate exactly once and in list
\* order (each is skipped or rebuilt), wherever the packages sit in the list;
\* in particular the root is processed.
C13_BuildOrderNotMutated ==
    pc = "done" => Processed = ResolvedOrder

\* the targets whose output directory the pass copied into the directory of t
\* (the "Copy '<d>' output to ..." lines of the build of t)
Staged(t) == {log[i][3] : i \in {j \in 1..Len(log) : log[j][1] = "copy" /\ log[j][2] = t}}

\* C14: when the script of a rebuilt package starts, what was staged into its
\* output directory are the outputs of every target of the resolved build
\* order other than the package that the requested architecture does not
\* exclude; the package's own directory is no staging input, and every staged
\* target went through the gate earlier in the same pass.
C14_PackageStaging ==
    (pc = "exec" /\ package[cur]) =>
        /\ Staged(cur) = {d \in Range(ResolvedOrder) \ {cur} : Applicable(d)}
        /\ cur \notin Staged(cur)
        /\ \A d \in Staged(cur) : Before(Processed, d, cur)
        /\ outDir[cur].files = UNION {outDir[d].files : d \in Staged(cur) \ {cur}}

\* C15: in every state of a pass, a sidecar in the output directory of a
\* target holds the fingerprint under which a completed script run of that
\* same target produced what the directory holds; while the target is being
\* rebuilt (from the staging to the exit of its script) it has no sidecar.
C15_SidecarIntegrity ==
    /\ \A t \in Targets :
          sidecar[t] # NoFile =>
              /\ outDir[t].exists
              /\ [by |-> t, fp |-> sidecar[t], complete |-> TRUE] \in outDir[t].files
    /\ pc = "exec" => sidecar[cur] = NoFile
    /\ ScriptFailed => sidecar[cur] = NoFile

\* C16: for every target T that the pass has hashed, every dependency of T
\* that the requested architecture does not exclude was hashed earlier in the
\* same pass, has a hash, and that hash is one of the lines T's fingerprint
\* was computed from.
C16_DependenciesHashedFirst ==
    \A t \in Range(Processed) :
        \A d \in Range(deps[t]) :
            Applicable(d) =>
                /\ Before(Processed, d, t)
                /\ Truthy(hash[d])
                /\ \E i \in 1..Len(hash[t].v) : hash[t].v[i] = hash[d]

\* the targets a package p is assembled from: its dependencies, direct and
\* transitive, and its resources
PackagedInto(p) == ReachFrom(DepEdgeSet, p) \cup Range(resources[p])

\* C19: a package that the gate skipped in a pass has none of the targets it
\* is assembled from rebuilt in that pass.
C19_PackageNeverStale ==
    \A p \in Skipped :
        package[p] => \A d \in PackagedInto(p) \ {p} : d \notin Executed

\* ======================================================================
\* Properties of run_process.
\* ======================================================================
\* the lines the child has written to stream s, in the order of the writes
WrittenTo(s) == {i \in 1..wrote : script[i] = s}

\* C17: the lines are printed in the order in which the child wrote them,
\* whichever streams they were written to.
C17_InterleavingPreserved ==
    \A i, j \in 1..Len(emitted) : i < j => emitted[i] < emitted[j]

\* C18: whenever the child has exited, run_process returns, and what it
\* returns is the exit code of the child.
C18_ChildExitLeadsToReturn ==
    (child = "exited") ~> (procPc = "returned" /\ result.known /\ result.code = childCode)

\* C20: when run_process has returned, both streams were read to end of
\* file and every line the child wrote has been printed.
C20_NoOutputLost ==
    procPc = "returned" =>
        /\ \A s \in Streams : fut[s].done /\ fut[s].line = 0
        /\ {emitted[i] : i \in 1..Len(emitted)} = 1..wrote

====
